---- MODULE Spec2Model ----
(***************************************************************************)
(* Verification model of the auto_walking_classification pipeline of DPVO: *)
(*   cal_moving_amount_by_sec.py            pose -> per-second motion file *)
(*   evaluate.py / create_walking_classification_video.py /                *)
(*   plot_move_amount_per_min.py            stitching, classification,     *)
(*                                          evaluation                     *)
(* Every script is a batch program; each has its own specification over    *)
(* the variables of its stage, the variables of the other stages idle.     *)
(*                                                                         *)
(* Numbers.  Python floats are IEEE-754 binary64.  Where the code rounds a *)
(* quotient or a product to a double and then truncates it (the frame      *)
(* windows of aggregate_by_second), the model computes the correctly       *)
(* rounded 53-bit result on arbitrary-precision naturals.  Motion       *)
(* amounts and thresholds are fixed-point integers in tenths; comparisons  *)
(* and sums of such small values are exact in binary64 as well.            *)
(***************************************************************************)
EXTENDS Integers, Sequences, FiniteSets, TLC

----------------------------------------------------------------------------
(* Arbitrary-precision naturals: little-endian sequences of 15-bit limbs,  *)
(* no zero limb at the top; <<>> is zero.                                  *)

LimbBits == 15

Base == 32768

Pow2Tab == <<1, 2, 4, 8, 16, 32, 64, 128, 256, 512, 1024, 2048, 4096, 8192,
             16384, 32768>>

\* 2^k for k in 0..LimbBits
Pow2(k) == Pow2Tab[k + 1]

RECURSIVE LStrip(_)
LStrip(x) ==
    IF x = <<>> THEN <<>>
    ELSE IF x[Len(x)] # 0 THEN x
    ELSE LStrip(SubSeq(x, 1, Len(x) - 1))

RECURSIVE LFromNat(_)
LFromNat(n) == IF n = 0 THEN <<>> ELSE <<n % Base>> \o LFromNat(n \div Base)

RECURSIVE LToNat(_)
LToNat(x) == IF x = <<>> THEN 0 ELSE x[1] + Base * LToNat(Tail(x))

LLimb(x, i) == IF i >= 1 /\ i <= Len(x) THEN x[i] ELSE 0

SmallBitLen(v) == CHOOSE k \in 1..LimbBits : Pow2(k - 1) <= v /\ v < Pow2(k)

LBitLen(x) ==
    IF x = <<>> THEN 0 ELSE LimbBits * (Len(x) - 1) + SmallBitLen(x[Len(x)])

\* bit j of x, j = 1 the least significant
LBitAt(x, j) ==
    (LLimb(x, (j - 1) \div LimbBits + 1) \div Pow2((j - 1) % LimbBits)) % 2

RECURSIVE LGeqFrom(_, _, _)
LGeqFrom(a, b, i) ==
    IF i = 0 THEN TRUE
    ELSE IF a[i] # b[i] THEN a[i] > b[i]
    ELSE LGeqFrom(a, b, i - 1)

LGeq(a, b) ==
    IF Len(a) # Len(b) THEN Len(a) > Len(b) ELSE LGeqFrom(a, b, Len(a))

RECURSIVE LAddC(_, _, _, _)
LAddC(a, b, i, c) ==
    IF i > Len(a) /\ i > Len(b)
    THEN IF c = 0 THEN <<>> ELSE <<c>>
    ELSE LET s == LLimb(a, i) + LLimb(b, i) + c
         IN  <<s % Base>> \o LAddC(a, b, i + 1, s \div Base)

LAdd(a, b) == LAddC(a, b, 1, 0)

RECURSIVE LSubC(_, _, _, _)
LSubC(a, b, i, c) ==
    IF i > Len(a) THEN <<>>
    ELSE LET d == a[i] - LLimb(b, i) - c
         IN  <<IF d < 0 THEN d + Base ELSE d>>
             \o LSubC(a, b, i + 1, IF d < 0 THEN 1 ELSE 0)

\* a - b for a >= b
LSub(a, b) == LStrip(LSubC(a, b, 1, 0))

RECURSIVE LMulSmallC(_, _, _, _)
LMulSmallC(a, k, i, c) ==
    IF i > Len(a)
    THEN IF c = 0 THEN <<>> ELSE <<c>>
    ELSE LET p == a[i] * k + c
         IN  <<p % Base>> \o LMulSmallC(a, k, i + 1, p \div Base)

\* a * k for 0 <= k <= Base
LMulSmall(a, k) == IF k = 0 THEN <<>> ELSE LMulSmallC(a, k, 1, 0)

LShlLimbs(a, n) ==
    IF a = <<>> THEN <<>>
    ELSE [i \in 1..(Len(a) + n) |-> IF i <= n THEN 0 ELSE a[i - n]]

RECURSIVE LMulFrom(_, _, _)
LMulFrom(a, b, i) ==
    IF i > Len(a) THEN <<>>
    ELSE LAdd(LShlLimbs(LMulSmall(b, a[i]), i - 1), LMulFrom(a, b, i + 1))

LMul(a, b) == LMulFrom(a, b, 1)

\* a * 2^k
LShlBits(a, k) == LMulSmall(LShlLimbs(a, k \div LimbBits), Pow2(k % LimbBits))

\* a div 2^k
LShrBits(a, k) ==
    LET n == k \div LimbBits
        s == k % LimbBits
    IN  IF n >= Len(a) THEN <<>>
        ELSE LStrip([i \in 1..(Len(a) - n) |->
                       (a[i + n] \div Pow2(s))
                       + (LLimb(a, i + n + 1) % Pow2(s)) * Pow2(LimbBits - s)])

\* a mod 2^k # 0
LLowBitsSet(a, k) ==
    \/ \E i \in 1..(k \div LimbBits) : LLimb(a, i) # 0
    \/ LLimb(a, k \div LimbBits + 1) % Pow2(k % LimbBits) # 0

\* one step of binary long division of a * 2^t by b: bring down bit i
LDivStep(a, b, t, i, st) ==
    LET bit == IF i > t THEN LBitAt(a, i - t) ELSE 0
        r1  == LAdd(LMulSmall(st.r, 2), LFromNat(bit))
        q2  == LMulSmall(st.q, 2)
    IN  IF LGeq(r1, b)
        THEN [q |-> LAdd(q2, <<1>>), r |-> LSub(r1, b)]
        ELSE [q |-> q2, r |-> r1]

\* bits hi down to lo; the range is halved and the upper half is evaluated
\* (its remainder inspected) before the lower half starts, which keeps the
\* evaluation shallow
RECURSIVE LDivRange(_, _, _, _, _, _)
LDivRange(a, b, t, hi, lo, st) ==
    IF hi < lo THEN st
    ELSE IF hi = lo THEN LDivStep(a, b, t, hi, st)
    ELSE LET mid   == (hi + lo) \div 2
             upper == LDivRange(a, b, t, hi, mid + 1, st)
         IN  IF Len(upper.r) >= 0
             THEN LDivRange(a, b, t, mid, lo, upper)
             ELSE upper

\* [q, r] with a * 2^t = q * b + r, 0 <= r < b, for b > 0, t >= 0
LDivMod(a, t, b) ==
    LDivRange(a, b, t, LBitLen(a) + t, 1, [q |-> <<>>, r |-> <<>>])

----------------------------------------------------------------------------
(* IEEE-754 binary64 values of the magnitudes the scripts compute:         *)
(* a record [m, e] stands for m * 2^e, m a natural of at most 53 bits      *)
(* (2^53 after a carry out of rounding, which is the same value).          *)

Precision == 53

\* the double nearest to (a / b) * 2^s, ties to even; a >= 0, b > 0
RoundNearestEven(a, b, s) ==
    IF a = <<>> THEN [m |-> <<>>, e |-> 0]
    ELSE LET t     == Precision + 2 - (LBitLen(a) - LBitLen(b))
             qr    == IF t >= 0 THEN LDivMod(a, t, b)
                      ELSE LDivMod(a, 0, LShlBits(b, 0 - t))
             extra == LBitLen(qr.q) - Precision
             low   == qr.q[1] % Pow2(extra)
             half  == Pow2(extra - 1)
             kept  == LShrBits(qr.q, extra)
             up    == \/ low > half
                      \/ low = half /\ (qr.r # <<>> \/ kept[1] % 2 = 1)
         IN  [m |-> IF up THEN LAdd(kept, <<1>>) ELSE kept,
              e |-> s - t + extra]

\* float(s) for a decimal literal s = num/den, num >= 0, den > 0
FloatOfDecimal(num, den) == RoundNearestEven(LFromNat(num), LFromNat(den), 0)

\* n / f : the int converts exactly, the quotient is rounded once
IntDivFloat(n, f) == RoundNearestEven(LFromNat(n), f.m, 0 - f.e)

\* k * f : the int converts exactly, the product is rounded once
IntMulFloat(k, f) == RoundNearestEven(LMul(LFromNat(k), f.m), <<1>>, f.e)

\* int(f) for f >= 0: truncation
FloatToInt(f) ==
    IF f.e >= 0 THEN LToNat(LShlBits(f.m, f.e))
    ELSE LToNat(LShrBits(f.m, 0 - f.e))

\* the whole seconds only, a partial second dropped
WholeSeconds(f) == FloatToInt(f)

\* math.ceil(f) for f >= 0
FloatCeil(f) ==
    IF f.e >= 0 THEN LToNat(LShlBits(f.m, f.e))
    ELSE LToNat(LShrBits(f.m, 0 - f.e))
         + (IF LLowBitsSet(f.m, 0 - f.e) THEN 1 ELSE 0)

----------------------------------------------------------------------------
(* Text.  A file or directory name is a sequence of one-character strings; *)
(* a field of a text record is [ok, v]: ok says that float() accepts the   *)
(* token, v is its value (a whole number, or tenths where the stage says   *)
(* so).                                                                    *)

Num(v) == [ok |-> TRUE, v |-> v]

Bad == [ok |-> FALSE, v |-> 0]

RECURSIVE SumSeq(_)
SumSeq(q) == IF q = <<>> THEN 0 ELSE q[1] + SumSeq(Tail(q))

----------------------------------------------------------------------------
(* cal_moving_amount_by_sec.py                                             *)

VARIABLES
    argv_fps,           \* sys.argv[3]: [ok, num, den], the literal num/den
    output_start,       \* what the output file name declares: [match, start]
    pose_file,          \* [exists, lines]: the records of the pose file
    line_num,           \* read_pose_data: records consumed so far
    xz_displacements,   \* read_pose_data: the positions read
    fps,                \* main: the parsed frame rate, a double [m, e]
    start_second,       \* main
    frame_motions,      \* calculate_frame_motion
    total_seconds,      \* aggregate_by_second
    second,             \* aggregate_by_second: loop variable
    per_second_motions, \* aggregate_by_second: <<absolute_second, motion_sum>>
    frame_windows,      \* aggregate_by_second: <<start_frame, stop>> per second
    motion_file,        \* save_motion_data: rows written ("none" before)
    agg_pc              \* position of the script

aggVars == <<argv_fps, output_start, pose_file, line_num, xz_displacements,
             fps, start_second, frame_motions, total_seconds, second,
             per_second_motions, frame_windows, motion_file, agg_pc>>

\* evaluate.py, create_walking_classification_video.py and
\* plot_move_amount_per_min.py
VARIABLES
    script,             \* which of the three scripts runs
    sec_to_motion,      \* read_motion_data: the global table {second: motion}
    listing,            \* os.listdir(motion_per_sec_dir), in the order returned
    segment_files,      \* read_motion_data: the files to read, in reading order
    file_idx,           \* read_motion_data: files finished
    rows_read,          \* read_motion_data: rows of the open file consumed
    malformed_at,       \* the row of the open file last skipped, 0 if none
    seg_table,          \* per file, the table its well-formed rows make alone
    st_pc,              \* position of read_motion_data
    walking_threshold1, \* main: TH1 (tenths)
    walking_threshold2, \* main: TH2 (tenths)
    todo,               \* classify_motion: the seconds still to label
    sec_to_label,       \* classify_motion: {second: label}
    cl_pc,              \* position of the classification
    annotation_file,    \* [exists, values]: the comma-separated fields
    annotation_data,    \* read_annotation_data
    th_idx,             \* evaluate.main: thresholds evaluated so far
    sec_to_classification, \* evaluate.classify_motion
    y_true,             \* align_data
    y_pred,             \* align_data
    cm,                 \* calculate_confusion_matrix: [tn, fp, fn, tp]
    metrics,            \* calculate_metrics
    ev_pc,              \* position of evaluate.main
    video_argv_fps,     \* create_video: sys.argv[4], [ok, num, den]
    video_fps,          \* create_video main: fps, [neg, abs] with abs a double
    frame_count,        \* the frames cap.read() delivers
    frame_idx,          \* create_classification_video
    frame_labels,       \* per frame written, the [sec, label] drawn on it
    out_video,          \* the classified video: "none", "created", "saved"
    vd_pc,              \* position of create_video main
    sec_to_annotation,  \* plot: read_annotation_data, {second: label}
    pl_pc               \* position of the annotation reader of plot

shVars == <<script, sec_to_motion>>

stVars == <<listing, segment_files, file_idx, rows_read, malformed_at, seg_table,
           st_pc>>

thVars == <<walking_threshold1, walking_threshold2>>

clVars == <<todo, sec_to_label, cl_pc>>

evVars == <<annotation_file, annotation_data, th_idx, sec_to_classification,
            y_true, y_pred, cm, metrics, ev_pc>>

vdVars == <<video_argv_fps, video_fps, frame_count, frame_idx, frame_labels,
            out_video, vd_pc>>

plVars == <<sec_to_annotation, pl_pc>>

vars == <<aggVars, shVars, stVars, thVars, clVars, evVars, vdVars, plVars>>

\* the empty dict
EmptyTable == [k \in {} |-> 0]

\* the state of a stage that is not running
StitchIdle ==
    /\ listing = <<>>
    /\ segment_files = <<>>
    /\ file_idx = 0
    /\ rows_read = 0
    /\ malformed_at = 0
    /\ seg_table = EmptyTable
    /\ st_pc = "idle"

PlotIdle ==
    /\ sec_to_annotation = EmptyTable
    /\ pl_pc = "idle"

VideoIdle ==
    /\ video_argv_fps = [ok |-> TRUE, num |-> 1, den |-> 1]
    /\ video_fps = [neg |-> FALSE, abs |-> [m |-> <<>>, e |-> 0]]
    /\ frame_count = 0
    /\ frame_idx = 0
    /\ frame_labels = <<>>
    /\ out_video = "none"
    /\ vd_pc = "idle"

ClassifyIdle ==
    /\ todo = {}
    /\ sec_to_label = EmptyTable
    /\ cl_pc = "idle"

EvalIdle ==
    /\ annotation_file = [exists |-> FALSE, values |-> <<>>]
    /\ annotation_data = <<>>
    /\ th_idx = 0
    /\ sec_to_classification = EmptyTable
    /\ y_true = <<>>
    /\ y_pred = <<>>
    /\ cm = [tn |-> 0, fp |-> 0, fn |-> 0, tp |-> 0]
    /\ metrics = EmptyTable
    /\ ev_pc = "idle"

TablesIdle ==
    /\ script = "cal_moving_amount_by_sec"
    /\ sec_to_motion = EmptyTable
    /\ walking_threshold1 = 0
    /\ walking_threshold2 = 0

notAgg == <<shVars, stVars, thVars, clVars, evVars, vdVars, plVars>>

FloatZero == [m |-> <<>>, e |-> 0]

\* one record of the pose file: st = [xz, exit]
PoseRecord(st, values) ==
    IF Len(values) = 0 THEN st                       \* blank line
    ELSE IF Len(values) < 2 THEN st                  \* warning, skipped
    ELSE IF ~values[1].ok THEN st                    \* ValueError: skipped
    ELSE IF Len(values) < 3
         THEN [st EXCEPT !.exit = TRUE]              \* IndexError: exit(1)
    ELSE IF ~values[3].ok THEN st                    \* ValueError: skipped
    ELSE [st EXCEPT !.xz = Append(st.xz, <<values[1].v, values[3].v>>)]

RECURSIVE PoseRecords(_, _, _)
PoseRecords(st, lines, i) ==
    IF i > Len(lines) \/ st.exit THEN st
    ELSE PoseRecords(PoseRecord(st, lines[i]), lines, i + 1)

\* the whole of read_pose_data
read_pose_data(file) ==
    IF ~file.exists THEN [xz |-> <<>>, exit |-> TRUE]
    ELSE PoseRecords([xz |-> <<>>, exit |-> FALSE], file.lines, 1)

\* math.sqrt on the perfect squares the inputs produce
Sqrt(n) == CHOOSE r \in 0..n : r * r <= n /\ (r + 1) * (r + 1) > n

\* the distances of the positions from the origin
distance_from_origin(xz) ==
    [i \in 1..(IF Len(xz) = 0 THEN 0 ELSE Len(xz) - 1) |->
        Sqrt(xz[i + 1][1] * xz[i + 1][1] + xz[i + 1][2] * xz[i + 1][2])]

\* one distance per pair of consecutive positions
calculate_frame_motion(xz) ==
    [i \in 1..(IF Len(xz) = 0 THEN 0 ELSE Len(xz) - 1) |->
        LET dx == xz[i + 1][1] - xz[i][1]
            dz == xz[i + 1][2] - xz[i][2]
        IN  Sqrt(dx * dx + dz * dz)]

Min(a, b) == IF a < b THEN a ELSE b

\* sum of motions[lo .. hi-1], indices from 0 as in the code
RECURSIVE SumRange(_, _, _)
SumRange(motions, lo, hi) ==
    IF lo >= hi THEN 0 ELSE motions[lo + 1] + SumRange(motions, lo + 1, hi)

\* frame rates on the command line
FpsArgs ==
    { [ok |-> TRUE, num |-> 1, den |-> 1],
      [ok |-> TRUE, num |-> 2, den |-> 1],
      [ok |-> TRUE, num |-> 3, den |-> 2],
      [ok |-> TRUE, num |-> 116, den |-> 100],
      [ok |-> TRUE, num |-> 1, den |-> 2],
      [ok |-> TRUE, num |-> 0, den |-> 1],
      [ok |-> TRUE, num |-> 0 - 1, den |-> 1],
      [ok |-> FALSE, num |-> 0, den |-> 1] }

OutputNames ==
    { [match |-> TRUE, start |-> 0], [match |-> TRUE, start |-> 5],
      [match |-> FALSE, start |-> 0] }

MaxPoses == 30

\* well-formed pose files of n records: a steady walk along x, and a walk
\* whose steps (3,4)-(0,0) alternate with rests
WalkLine(i) == <<Num(i), Num(7), Num(0)>>

StepLine(i) == <<Num(3 * ((i \div 2) % 2)), Num(7), Num(4 * ((i \div 2) % 2))>>

AggPoseFiles ==
    { [exists |-> TRUE, lines |-> [i \in 1..n |-> WalkLine(i)]] : n \in 0..MaxPoses }
    \cup { [exists |-> TRUE, lines |-> [i \in 1..n |-> StepLine(i)]] : n \in 0..MaxPoses }

AggInit ==
    /\ argv_fps \in FpsArgs
    /\ output_start \in OutputNames
    /\ pose_file \in AggPoseFiles
    /\ line_num = 0
    /\ xz_displacements = <<>>
    /\ fps = FloatZero
    /\ start_second = 0
    /\ frame_motions = <<>>
    /\ total_seconds = 0
    /\ second = 0
    /\ per_second_motions = <<>>
    /\ frame_windows = <<>>
    /\ motion_file = "none"
    /\ agg_pc = "parse_fps"
    /\ TablesIdle /\ StitchIdle /\ ClassifyIdle /\ EvalIdle /\ VideoIdle /\ PlotIdle

\* main, lines 179-185: fps = float(argv[3]); non-positive or non-numeric exits
AggParseFps ==
    /\ agg_pc = "parse_fps"
    /\ IF argv_fps.ok /\ argv_fps.num > 0
       THEN /\ fps' = FloatOfDecimal(argv_fps.num, argv_fps.den)
            /\ agg_pc' = "extract_start"
       ELSE /\ fps' = fps
            /\ agg_pc' = "exit1"
    /\ UNCHANGED <<argv_fps, output_start, pose_file, line_num,
                   xz_displacements, start_second, frame_motions,
                   total_seconds, second, per_second_motions, frame_windows,
                   motion_file>>
    /\ UNCHANGED notAgg

\* extract_start_second_from_filename: the declared start, 0 without a match
AggExtractStart ==
    /\ agg_pc = "extract_start"
    /\ start_second' = IF output_start.match THEN output_start.start ELSE 0
    /\ agg_pc' = "read_pose"
    /\ UNCHANGED <<argv_fps, output_start, pose_file, line_num,
                   xz_displacements, fps, frame_motions, total_seconds,
                   second, per_second_motions, frame_windows, motion_file>>
    /\ UNCHANGED notAgg

\* main, lines 197-202: read_pose_data, then the length check
AggReadPose ==
    /\ agg_pc = "read_pose"
    /\ LET r == read_pose_data(pose_file)
       IN  /\ xz_displacements' = r.xz
           /\ line_num' = IF pose_file.exists THEN Len(pose_file.lines) ELSE 0
           /\ agg_pc' = IF r.exit \/ Len(r.xz) < 2 THEN "exit1"
                        ELSE "frame_motion"
    /\ UNCHANGED <<argv_fps, output_start, pose_file, fps, start_second,
                   frame_motions, total_seconds, second, per_second_motions,
                   frame_windows, motion_file>>
    /\ UNCHANGED notAgg

\* main line 206 and aggregate_by_second lines 98-101
AggFrameMotion ==
    /\ agg_pc = "frame_motion"
    /\ frame_motions' = calculate_frame_motion(xz_displacements)
    /\ total_seconds' = FloatCeil(IntDivFloat(Len(frame_motions'), fps))
    /\ second' = 0
    /\ per_second_motions' = <<>>
    /\ frame_windows' = <<>>
    /\ agg_pc' = "aggregate"
    /\ UNCHANGED <<argv_fps, output_start, pose_file, line_num,
                   xz_displacements, fps, start_second, motion_file>>
    /\ UNCHANGED notAgg

\* aggregate_by_second lines 103-117: one pass of the loop over seconds
AggSecond ==
    /\ agg_pc = "aggregate"
    /\ second < total_seconds
    /\ LET start_frame == FloatToInt(IntMulFloat(second, fps))
           end_frame   == FloatToInt(IntMulFloat(second + 1, fps))
           stop        == Min(end_frame, Len(frame_motions))
           motion_sum  == SumRange(frame_motions, start_frame, stop)
       IN  /\ per_second_motions' =
                Append(per_second_motions, <<start_second + second, motion_sum>>)
           /\ frame_windows' = Append(frame_windows, <<start_frame, stop>>)
    /\ second' = second + 1
    /\ UNCHANGED <<argv_fps, output_start, pose_file, line_num,
                   xz_displacements, fps, start_second, frame_motions,
                   total_seconds, motion_file, agg_pc>>
    /\ UNCHANGED notAgg

\* aggregate_by_second line 119 and save_motion_data
AggSave ==
    /\ agg_pc = "aggregate"
    /\ second >= total_seconds
    /\ motion_file' = per_second_motions
    /\ agg_pc' = "done"
    /\ UNCHANGED <<argv_fps, output_start, pose_file, line_num,
                   xz_displacements, fps, start_second, frame_motions,
                   total_seconds, second, per_second_motions, frame_windows>>
    /\ UNCHANGED notAgg

AggNext ==
    \/ AggParseFps
    \/ AggExtractStart
    \/ AggReadPose
    \/ AggFrameMotion
    \/ AggSecond
    \/ AggSave

SpecAgg == AggInit /\ [][AggNext]_vars

\* the motion sums of the rows
RowSums(rows) == [i \in 1..Len(rows) |-> rows[i][2]]

\* the windows of the seconds that contain frame-motion index i
WindowsOf(i) ==
    {s \in 1..Len(frame_windows) :
        frame_windows[s][1] <= i /\ i < frame_windows[s][2]}

(* C1: aggregate_by_second conserves motion: once the loop over the seconds *)
(* has ended, every frame-motion index 0..len-1 lies in exactly one        *)
(* window and the per-second sums add up to the sum of the frame motions,  *)
(* for every fps > 0.                                                      *)
C1_Conservation ==
    agg_pc = "done" =>
        /\ \A i \in 0..(Len(frame_motions) - 1) : Cardinality(WindowsOf(i)) = 1
        /\ SumSeq(RowSums(per_second_motions)) = SumSeq(frame_motions)

----------------------------------------------------------------------------
(* read_pose_data, record by record                                        *)

MaxPoseLines == 3

\* the records a pose file may hold: blank, short, non-numeric, well-formed
PoseLineKinds ==
    { <<>>,
      <<Num(1)>>, <<Bad>>,
      <<Num(1), Num(2)>>, <<Bad, Num(2)>>,
      <<Num(1), Num(2), Num(3)>>, <<Bad, Num(2), Num(3)>>,
      <<Num(1), Num(2), Bad>>, <<Num(1), Bad, Num(3)>>,
      <<Num(4), Num(5), Num(6), Num(7)>> }

SeqsUpTo(S, n) == UNION { [1..k -> S] : k \in 0..n }

PoseFiles ==
    { [exists |-> TRUE, lines |-> l] : l \in SeqsUpTo(PoseLineKinds, MaxPoseLines) }
    \cup { [exists |-> FALSE, lines |-> <<>>] }

PoseInit ==
    /\ argv_fps = [ok |-> TRUE, num |-> 1, den |-> 1]
    /\ output_start = [match |-> TRUE, start |-> 0]
    /\ pose_file \in PoseFiles
    /\ line_num = 0
    /\ xz_displacements = <<>>
    /\ fps = FloatOfDecimal(1, 1)
    /\ start_second = 0
    /\ frame_motions = <<>>
    /\ total_seconds = 0
    /\ second = 0
    /\ per_second_motions = <<>>
    /\ frame_windows = <<>>
    /\ motion_file = "none"
    /\ agg_pc = "read_pose"
    /\ TablesIdle /\ StitchIdle /\ ClassifyIdle /\ EvalIdle /\ VideoIdle /\ PlotIdle

\* read_pose_data lines 30-31 and 51-53: open, FileNotFoundError exits
PoseOpen ==
    /\ agg_pc = "read_pose"
    /\ agg_pc' = IF pose_file.exists THEN "pose_lines" ELSE "exit1"
    /\ UNCHANGED <<argv_fps, output_start, pose_file, line_num,
                   xz_displacements, fps, start_second, frame_motions,
                   total_seconds, second, per_second_motions, frame_windows,
                   motion_file>>
    /\ UNCHANGED notAgg

\* read_pose_data lines 32-49 and 54-56: one record
PoseReadRecord ==
    /\ agg_pc = "pose_lines"
    /\ line_num < Len(pose_file.lines)
    /\ LET st == PoseRecord([xz |-> xz_displacements, exit |-> FALSE],
                            pose_file.lines[line_num + 1])
       IN  /\ xz_displacements' = st.xz
           /\ agg_pc' = IF st.exit THEN "exit1" ELSE "pose_lines"
    /\ line_num' = line_num + 1
    /\ UNCHANGED <<argv_fps, output_start, pose_file, fps, start_second,
                   frame_motions, total_seconds, second, per_second_motions,
                   frame_windows, motion_file>>
    /\ UNCHANGED notAgg

\* read_pose_data line 58
PoseReturn ==
    /\ agg_pc = "pose_lines"
    /\ line_num = Len(pose_file.lines)
    /\ agg_pc' = "pose_returned"
    /\ UNCHANGED <<argv_fps, output_start, pose_file, line_num,
                   xz_displacements, fps, start_second, frame_motions,
                   total_seconds, second, per_second_motions, frame_windows,
                   motion_file>>
    /\ UNCHANGED notAgg

PoseNext == PoseOpen \/ PoseReadRecord \/ PoseReturn

SpecPose == PoseInit /\ [][PoseNext]_vars

\* a non-blank record with fewer than 3 fields or a non-numeric field 0 or 2
MalformedPoseRecord(values) ==
    /\ Len(values) >= 1
    /\ (Len(values) < 3 \/ ~values[1].ok \/ ~values[3].ok)

(* C9: a non-blank pose record with fewer than 3 fields, or with a         *)
(* non-numeric field 0 or 2, is skipped: it adds no position, reading goes *)
(* on with the next record and the run is not terminated.                  *)
C9_MalformedRecordSkipped ==
    [][(/\ agg_pc = "pose_lines"
        /\ line_num < Len(pose_file.lines)
        /\ MalformedPoseRecord(pose_file.lines[line_num + 1]))
       => (/\ agg_pc' = "pose_lines"
           /\ xz_displacements' = xz_displacements
           /\ line_num' = line_num + 1)]_vars

----------------------------------------------------------------------------
(* Strings as Python compares, searches and splits them                    *)

Digits == <<"0", "1", "2", "3", "4", "5", "6", "7", "8", "9">>

Letters == <<"a", "b", "c", "d", "e", "f", "g", "h", "i", "j", "k", "l", "m",
             "n", "o", "p", "q", "r", "s", "t", "u", "v", "w", "x", "y", "z">>

IsDigit(c) == \E i \in 1..10 : Digits[i] = c

\* the code point of a character of a file name
Ord(c) ==
    IF c = "-" THEN 45
    ELSE IF c = "." THEN 46
    ELSE IF IsDigit(c) THEN 47 + (CHOOSE i \in 1..10 : Digits[i] = c)
    ELSE 96 + (CHOOSE i \in 1..26 : Letters[i] = c)

\* a < b for str: by code point at the first difference, a proper prefix first
RECURSIVE StrLess(_, _)
StrLess(a, b) ==
    IF b = <<>> THEN FALSE
    ELSE IF a = <<>> THEN TRUE
    ELSE IF a[1] # b[1] THEN Ord(a[1]) < Ord(b[1])
    ELSE StrLess(Tail(a), Tail(b))

StartsWithAt(str, pat, i) ==
    /\ i + Len(pat) - 1 <= Len(str)
    /\ \A k \in 1..Len(pat) : str[i + k - 1] = pat[k]

\* str.endswith(pat)
EndsWith(str, pat) ==
    Len(str) >= Len(pat) /\ StartsWithAt(str, pat, Len(str) - Len(pat) + 1)

\* pat in str
Contains(str, pat) == \E i \in 1..Len(str) : StartsWithAt(str, pat, i)

\* str.replace(pat, '')
RECURSIVE RemoveAll(_, _, _)
RemoveAll(str, pat, i) ==
    IF i > Len(str) THEN <<>>
    ELSE IF StartsWithAt(str, pat, i) THEN RemoveAll(str, pat, i + Len(pat))
    ELSE <<str[i]>> \o RemoveAll(str, pat, i + 1)

\* str.split(sep) from position i, cur the part being collected
RECURSIVE SplitFrom(_, _, _, _)
SplitFrom(str, sep, i, cur) ==
    IF i > Len(str) THEN <<cur>>
    ELSE IF str[i] = sep THEN <<cur>> \o SplitFrom(str, sep, i + 1, <<>>)
    ELSE SplitFrom(str, sep, i + 1, Append(cur, str[i]))

\* int(str) succeeds (on the alphabet of the names: digits only, non-empty)
IsIntLiteral(str) == Len(str) >= 1 /\ \A i \in 1..Len(str) : IsDigit(str[i])

SecTxt == <<"s", "e", "c", ".", "t", "x", "t">>

DotTxt == <<".", "t", "x", "t">>

\* start_sec, end_sec = map(int, name.replace('sec.txt', '').split('-'))
\* does not raise
ParsesTimeRange(name) ==
    LET parts == SplitFrom(RemoveAll(name, SecTxt, 1), "-", 1, <<>>)
    IN  Len(parts) = 2 /\ IsIntLiteral(parts[1]) /\ IsIntLiteral(parts[2])

RECURSIVE InsertSorted(_, _)
InsertSorted(x, q) ==
    IF q = <<>> THEN <<x>>
    ELSE IF StrLess(x, q[1]) THEN <<x>> \o q
    ELSE <<q[1]>> \o InsertSorted(x, Tail(q))

\* the names in the order of the listing
unsorted(names) == names

\* sorted(names)
RECURSIVE sorted(_)
sorted(names) ==
    IF names = <<>> THEN <<>>
    ELSE InsertSorted(names[1], sorted(Tail(names)))

----------------------------------------------------------------------------
(* read_motion_data of the three scripts                                   *)

Range(q) == {q[i] : i \in 1..Len(q)}

\* table[k] = v
Put(table, k, v) ==
    [x \in DOMAIN table \cup {k} |-> IF x = k THEN v ELSE table[x]]

\* int(float(field)) of a field given in tenths: truncation towards zero
TruncTenths(v) == IF v >= 0 THEN v \div 10 ELSE 0 - ((0 - v) \div 10)

\* a row adds its motion to what the table holds for the second
ApplyRowSum(table, row) ==
    IF Len(row) < 2 THEN table
    ELSE IF ~row[1].ok \/ ~row[2].ok THEN table
    ELSE LET sec == TruncTenths(row[1].v)
         IN  Put(table, sec,
                 (IF sec \in DOMAIN table THEN table[sec] ELSE 0) + row[2].v)

\* a reader that loses what it has read when it meets a malformed row
ApplyRowAbort(table, row) ==
    IF Len(row) >= 2 /\ row[1].ok /\ row[2].ok
    THEN Put(table, TruncTenths(row[1].v), row[2].v)
    ELSE EmptyTable

\* the body of "for row in reader": rows shorter than 2 fields are passed
\* over, a row that raises in int(float(.)) or float(.) is skipped with a
\* warning, any other row is written under its own second
ApplyRow(table, row) ==
    IF Len(row) < 2 THEN table
    ELSE IF ~row[1].ok \/ ~row[2].ok THEN table
    ELSE Put(table, TruncTenths(row[1].v), row[2].v)

\* the files read_motion_data selects, in the order it reads them
SelectFiles(scr, names) ==
    IF scr = "plot"
    THEN SelectSeq(names, LAMBDA f : EndsWith(f, SecTxt))
    ELSE sorted(SelectSeq(names,
                          LAMBDA f : EndsWith(f, DotTxt) /\ Contains(f, SecTxt)))

Name0to5 == <<"0", "-", "5">> \o SecTxt

Name10to15 == <<"1", "0", "-", "1", "5">> \o SecTxt

Name5to10 == <<"5", "-", "1", "0">> \o SecTxt

NameNotes == <<"n", "o", "t", "e", "s">> \o SecTxt

NameReadme == <<"r", "e", "a", "d", "m", "e">> \o DotTxt

DirNames == {Name0to5, Name10to15, Name5to10, NameNotes, NameReadme}

MaxFiles == 2

MaxRows == 3

\* rows of a motion file after the header, fields in tenths
MotionRows ==
    { <<Num(0), Num(10)>>, <<Num(0), Num(20)>>,
      <<Num(15), Num(10)>>, <<Num(15), Num(20)>>,
      <<Bad, Num(10)>>, <<Num(0), Bad>>, <<Num(0)>>, <<>> }

\* the listings of a set of names: every order
Perms(S) ==
    {q \in [1..Cardinality(S) -> S] :
        \A i, j \in 1..Cardinality(S) : i # j => q[i] # q[j]}

Listings ==
    UNION {Perms(S) : S \in {T \in SUBSET DirNames : Cardinality(T) <= MaxFiles}}

StitchInit ==
    /\ script \in {"evaluate", "create_video", "plot"}
    /\ listing \in Listings
    /\ segment_files = <<>>
    /\ file_idx = 0
    /\ rows_read = 0
    /\ malformed_at = 0
    /\ sec_to_motion = EmptyTable
    /\ seg_table = [f \in Range(listing) |-> EmptyTable]
    /\ st_pc = "list"
    /\ walking_threshold1 = 0
    /\ walking_threshold2 = 0
    /\ ClassifyIdle /\ EvalIdle /\ VideoIdle /\ PlotIdle
    /\ argv_fps = [ok |-> TRUE, num |-> 1, den |-> 1]
    /\ output_start = [match |-> TRUE, start |-> 0]
    /\ pose_file = [exists |-> FALSE, lines |-> <<>>]
    /\ line_num = 0
    /\ xz_displacements = <<>>
    /\ fps = FloatZero
    /\ start_second = 0
    /\ frame_motions = <<>>
    /\ total_seconds = 0
    /\ second = 0
    /\ per_second_motions = <<>>
    /\ frame_windows = <<>>
    /\ motion_file = "none"
    /\ agg_pc = "idle"

notStitch == <<aggVars, thVars, clVars, evVars, vdVars, plVars, script, listing>>

\* os.listdir, the filter and (evaluate, create_video) sorted()
StListDir ==
    /\ st_pc = "list"
    /\ segment_files' = SelectFiles(script, listing)
    /\ st_pc' = "next_file"
    /\ UNCHANGED <<file_idx, rows_read, malformed_at, sec_to_motion, seg_table>>
    /\ UNCHANGED notStitch

\* the head of the loop over the files; evaluate and create_video parse the
\* time range of the name first, and the ValueError of a name that is not
\* <int>-<int>sec.txt is not caught
StNextFile ==
    /\ st_pc = "next_file"
    /\ file_idx < Len(segment_files)
    /\ st_pc' = IF script # "plot" /\ ~ParsesTimeRange(segment_files[file_idx + 1])
                THEN "ValueError"
                ELSE "open"
    /\ UNCHANGED <<segment_files, file_idx, rows_read, malformed_at, sec_to_motion,
                   seg_table>>
    /\ UNCHANGED notStitch

\* open and header = next(reader): a file without any line raises
\* StopIteration, which plot catches (warning, next file) and the other two
\* do not
StOpenFile ==
    /\ st_pc = "open"
    /\ \E has_header \in BOOLEAN :
          IF has_header
          THEN st_pc' = "rows" /\ file_idx' = file_idx
          ELSE IF script = "plot"
               THEN st_pc' = "next_file" /\ file_idx' = file_idx + 1
               ELSE st_pc' = "StopIteration" /\ file_idx' = file_idx
    /\ rows_read' = 0
    /\ malformed_at' = 0
    /\ UNCHANGED <<segment_files, sec_to_motion, seg_table>>
    /\ UNCHANGED notStitch

\* a row the file alone contributes: at least 2 fields, both numeric
WellFormedRow(row) == Len(row) >= 2 /\ row[1].ok /\ row[2].ok

\* one row of the open file
StReadRow ==
    /\ st_pc = "rows"
    /\ rows_read < MaxRows
    /\ \E row \in MotionRows :
          /\ sec_to_motion' = ApplyRow(sec_to_motion, row)
          /\ seg_table' =
                [seg_table EXCEPT ![segment_files[file_idx + 1]] =
                    IF WellFormedRow(row)
                    THEN Put(@, TruncTenths(row[1].v), row[2].v)
                    ELSE @]
          /\ malformed_at' = IF WellFormedRow(row) THEN malformed_at
                                                   ELSE rows_read + 1
    /\ rows_read' = rows_read + 1
    /\ UNCHANGED <<segment_files, file_idx, st_pc>>
    /\ UNCHANGED notStitch

\* the reader is exhausted: the file is closed, on to the next
StEndOfFile ==
    /\ st_pc = "rows"
    /\ file_idx' = file_idx + 1
    /\ rows_read' = 0
    /\ malformed_at' = 0
    /\ st_pc' = "next_file"
    /\ UNCHANGED <<segment_files, sec_to_motion, seg_table>>
    /\ UNCHANGED notStitch

\* return sec_to_motion
StReturn ==
    /\ st_pc = "next_file"
    /\ file_idx = Len(segment_files)
    /\ st_pc' = "returned"
    /\ UNCHANGED <<segment_files, file_idx, rows_read, malformed_at, sec_to_motion,
                   seg_table>>
    /\ UNCHANGED notStitch

StitchNext ==
    \/ StListDir
    \/ StNextFile
    \/ StOpenFile
    \/ StReadRow
    \/ StEndOfFile
    \/ StReturn

SpecStitch == StitchInit /\ [][StitchNext]_vars

\* the seconds for which file f holds a well-formed row
KeysOf(f) == DOMAIN seg_table[f]

\* no second has a well-formed row in two files
DisjointKeys ==
    \A f, g \in DOMAIN seg_table : f # g => KeysOf(f) \cap KeysOf(g) = {}

AllKeys == UNION {KeysOf(f) : f \in DOMAIN seg_table}

\* the union of the per-file tables (of tables with disjoint keys)
UnionTable ==
    [k \in AllKeys |-> seg_table[CHOOSE f \in DOMAIN seg_table : k \in KeysOf(f)][k]]

Override(t, u) ==
    [k \in DOMAIN t \cup DOMAIN u |-> IF k \in DOMAIN u THEN u[k] ELSE t[k]]

\* the table left by reading the files one after the other in the given order
RECURSIVE MergeInOrder(_, _)
MergeInOrder(order, acc) ==
    IF order = <<>> THEN acc
    ELSE MergeInOrder(Tail(order), Override(acc, seg_table[order[1]]))

(* C2: when read_motion_data has returned and no second has a well-formed  *)
(* row in two different files, the global table is the union of the        *)
(* per-file tables, and reading the files in any other order gives the     *)
(* same table.                                                             *)
C2_DisjointUnion ==
    (st_pc = "returned" /\ DisjointKeys) =>
        /\ sec_to_motion = UnionTable
        /\ \A order \in Perms(Range(segment_files)) :
              MergeInOrder(order, EmptyTable) = sec_to_motion

\* two files have contributed disjoint seconds, one of them the same second twice
C2_Witness ==
    /\ st_pc = "returned"
    /\ DisjointKeys
    /\ \E f, g \in DOMAIN seg_table :
          f # g /\ KeysOf(f) # {} /\ KeysOf(g) # {}
    /\ Cardinality(DOMAIN sec_to_motion) = 2

\* the lexicographically greatest name of a non-empty set of names
LexGreatest(F) == CHOOSE f \in F : \A g \in F \ {f} : StrLess(g, f)

\* the files that hold a well-formed row for second k
FilesWith(k) == {f \in DOMAIN seg_table : k \in KeysOf(f)}

(* C3: in evaluate and create_video, when two or more files hold a         *)
(* well-formed row for a second, the global table holds for that second    *)
(* the value of the file with the lexicographically greatest name,         *)
(* whatever start seconds the names declare.                               *)
C3_LexGreatestWins ==
    (st_pc = "returned" /\ script # "plot") =>
        \A k \in AllKeys :
            Cardinality(FilesWith(k)) >= 2 =>
                /\ k \in DOMAIN sec_to_motion
                /\ sec_to_motion[k] = seg_table[LexGreatest(FilesWith(k))][k]

\* 10-15sec.txt and 5-10sec.txt overlap with different values and the value
\* of 5-10sec.txt, the smaller start second, stands
C3_Witness ==
    /\ st_pc = "returned"
    /\ script # "plot"
    /\ listing = <<Name5to10, Name10to15>>
    /\ \E k \in AllKeys :
          /\ FilesWith(k) = {Name5to10, Name10to15}
          /\ seg_table[Name5to10][k] # seg_table[Name10to15][k]
          /\ sec_to_motion[k] = seg_table[Name5to10][k]

\* the files whose reading has begun, in reading order
FilesBegun == SubSeq(segment_files, 1, Min(file_idx + 1, Len(segment_files)))

(* C11: in evaluate and create_video, as long as no file name or empty     *)
(* file aborts the run, the global table is at every moment the per-file   *)
(* tables of the well-formed rows read so far, merged in reading order: a  *)
(* malformed row leaves the table as it was, the reader stays in the file, *)
(* and the well-formed rows before and after it and those of the other     *)
(* files are in the table.                                                 *)
C11_MalformedRowSkipped ==
    (script # "plot" /\ st_pc \in {"rows", "next_file", "open", "returned"}) =>
        /\ sec_to_motion = MergeInOrder(FilesBegun, EmptyTable)
        /\ malformed_at > 0 => st_pc = "rows"

\* the second file: a well-formed row, a malformed row, a well-formed row
\* for another second; both seconds and a second of the first file are in
\* the global table
C11_Witness ==
    /\ script # "plot"
    /\ st_pc = "rows"
    /\ file_idx = 1
    /\ rows_read = 3
    /\ malformed_at = 2
    /\ KeysOf(segment_files[2]) = {0, 1}
    /\ KeysOf(segment_files[1]) # {}
    /\ DOMAIN sec_to_motion = {0, 1}
    /\ \A k \in {0, 1} : sec_to_motion[k] = seg_table[segment_files[2]][k]

(* C14: every reader goes through the segment files in sorted order of   *)
(* their names, and the table it returns is the one the sorted order      *)
(* gives, whatever order the directory listing had, overlapping segments  *)
(* included.                                                               *)
C14_SortedOrderDeterministic ==
    /\ st_pc \notin {"idle", "list"} => segment_files = sorted(segment_files)
    /\ st_pc = "returned" =>
          sec_to_motion = MergeInOrder(sorted(segment_files), EmptyTable)

(* C10: every file of the directory whose name ends in sec.txt is read,    *)
(* also when the name is not <start>-<end>sec.txt: the file is among the   *)
(* files read, the run does not abort on the name and the rows of the      *)
(* file are in the global table when read_motion_data returns.             *)
C10_AnySecTxtRead ==
    /\ st_pc # "ValueError"
    /\ st_pc # "list" =>
          \A f \in Range(listing) :
              EndsWith(f, SecTxt) => f \in Range(segment_files)
    /\ st_pc = "returned" =>
          \A f \in Range(listing) :
              EndsWith(f, SecTxt) => KeysOf(f) \subseteq DOMAIN sec_to_motion

----------------------------------------------------------------------------
(* classify_motion of create_walking_classification_video.py (3 classes,   *)
(* every second of 0..max) and of plot_move_amount_per_min.py (3 classes,  *)
(* the seconds of the table)                                               *)

\* table.get(k, default)
Get(table, k, default) == IF k \in DOMAIN table THEN table[k] ELSE default

\* max(table.keys())
MaxKey(table) == CHOOSE k \in DOMAIN table : \A j \in DOMAIN table : j <= k

\* the rule with the thresholds exclusive
ClassLabelStrict(mv, th1, th2) ==
    IF mv > th1 THEN "WALKING"
    ELSE IF mv > th2 THEN "HOLD"
    ELSE "STAYING"

\* the if / elif / else of classify_motion
ClassLabel(mv, th1, th2) ==
    IF mv >= th1 THEN "WALKING"
    ELSE IF mv >= th2 THEN "HOLD"
    ELSE "STAYING"

\* the symbol a script stores for a class
LabelOf(scr, class) ==
    IF scr = "plot"
    THEN (CASE class = "WALKING" -> "walk"
            [] class = "HOLD" -> "hold"
            [] class = "STAYING" -> "stay")
    ELSE class

\* the seconds of the table only
SecondsPresent(scr, table) == DOMAIN table

\* the seconds classify_motion loops over
SecondsToLabel(scr, table) ==
    IF scr = "plot" THEN DOMAIN table ELSE 0..MaxKey(table)

MaxSec == 3

MotionVals == {5, 10, 20, 30}

Thresholds == {0, 10, 20}

\* the tables read_motion_data may return for seconds 0..MaxSec
MotionTables ==
    UNION { [S -> MotionVals] : S \in SUBSET (0..MaxSec) }

AggIdle ==
    /\ argv_fps = [ok |-> TRUE, num |-> 1, den |-> 1]
    /\ output_start = [match |-> TRUE, start |-> 0]
    /\ pose_file = [exists |-> FALSE, lines |-> <<>>]
    /\ line_num = 0
    /\ xz_displacements = <<>>
    /\ fps = FloatZero
    /\ start_second = 0
    /\ frame_motions = <<>>
    /\ total_seconds = 0
    /\ second = 0
    /\ per_second_motions = <<>>
    /\ frame_windows = <<>>
    /\ motion_file = "none"
    /\ agg_pc = "idle"

ClassifyInit ==
    /\ script \in {"create_video", "plot"}
    /\ sec_to_motion \in MotionTables
    /\ walking_threshold1 \in Thresholds
    /\ walking_threshold2 \in Thresholds
    /\ todo = {}
    /\ sec_to_label = EmptyTable
    /\ cl_pc = "check"
    /\ AggIdle /\ StitchIdle /\ EvalIdle /\ VideoIdle /\ PlotIdle

notClassify == <<aggVars, shVars, stVars, thVars, evVars, vdVars, plVars>>

\* main: an empty table is fatal; otherwise classify_motion starts
ClCheckMotion ==
    /\ cl_pc = "check"
    /\ IF sec_to_motion = EmptyTable
       THEN cl_pc' = "exit1" /\ todo' = todo
       ELSE cl_pc' = "classify" /\ todo' = SecondsToLabel(script, sec_to_motion)
    /\ UNCHANGED sec_to_label
    /\ UNCHANGED notClassify

\* one pass of the loop of classify_motion: range(0, max_sec + 1) in
\* increasing order, or the items of the dict in any order
ClSecond ==
    /\ cl_pc = "classify"
    /\ \E s \in todo :
          /\ script # "plot" => \A r \in todo : s <= r
          /\ sec_to_label' =
                Put(sec_to_label, s,
                    LabelOf(script,
                            ClassLabel(Get(sec_to_motion, s, 0),
                                       walking_threshold1, walking_threshold2)))
          /\ todo' = todo \ {s}
    /\ UNCHANGED cl_pc
    /\ UNCHANGED notClassify

\* return sec_to_label
ClReturn ==
    /\ cl_pc = "classify"
    /\ todo = {}
    /\ cl_pc' = "returned"
    /\ UNCHANGED <<todo, sec_to_label>>
    /\ UNCHANGED notClassify

ClassifyNext == ClCheckMotion \/ ClSecond \/ ClReturn

SpecClassify == ClassifyInit /\ [][ClassifyNext]_vars

ValidThresholds ==
    walking_threshold1 > walking_threshold2 /\ walking_threshold2 >= 0

(* C4: with TH1 > TH2 >= 0 every labelled second carries the label of its  *)
(* own motion value mv by lower-inclusive thresholds: WALKING for          *)
(* mv >= TH1, HOLD for TH2 <= mv < TH1, STAYING for mv < TH2; so mv = TH1   *)
(* is WALKING and mv = TH2 is HOLD.                                        *)
C4_LowerInclusive ==
    ValidThresholds =>
        \A s \in DOMAIN sec_to_label :
            LET mv == Get(sec_to_motion, s, 0)
            IN  /\ mv >= walking_threshold1
                      => sec_to_label[s] = LabelOf(script, "WALKING")
                /\ (walking_threshold2 <= mv /\ mv < walking_threshold1)
                      => sec_to_label[s] = LabelOf(script, "HOLD")
                /\ mv < walking_threshold2
                      => sec_to_label[s] = LabelOf(script, "STAYING")

\* the scenario TH1 = 2.0, TH2 = 1.0 over {0: 0.5, 1: 1.0, 2: 2.0, 3: 3.0}
C4_Witness ==
    /\ cl_pc = "returned"
    /\ script = "create_video"
    /\ walking_threshold1 = 20 /\ walking_threshold2 = 10
    /\ sec_to_motion = (0 :> 5 @@ 1 :> 10 @@ 2 :> 20 @@ 3 :> 30)
    /\ sec_to_label = (0 :> "STAYING" @@ 1 :> "HOLD" @@ 2 :> "WALKING"
                       @@ 3 :> "WALKING")

(* C5 as claimed: for a non-empty table and TH1 > TH2 >= 0 the label table *)
(* has a label for every second of 0..max key, and every second of that    *)
(* range that is absent from the motion table is labelled STAYING.         *)
C5_TotalAbsentStaying ==
    (cl_pc = "returned" /\ ValidThresholds) =>
        /\ \A s \in 0..MaxKey(sec_to_motion) : s \in DOMAIN sec_to_label
        /\ \A s \in (0..MaxKey(sec_to_motion)) \ DOMAIN sec_to_motion :
              Get(sec_to_label, s, "none") = LabelOf(script, "STAYING")

(* C5 amended: in the classification-video script the label table has      *)
(* exactly the seconds 0..max key, and a second absent from the motion     *)
(* table carries the label of motion 0.0: STAYING when TH2 > 0, HOLD when  *)
(* TH2 = 0; the plotting script labels exactly the seconds of the table.   *)
C5_TotalAbsentAsZero ==
    (cl_pc = "returned" /\ ValidThresholds) =>
        /\ script = "create_video" =>
              /\ DOMAIN sec_to_label = 0..MaxKey(sec_to_motion)
              /\ \A s \in (0..MaxKey(sec_to_motion)) \ DOMAIN sec_to_motion :
                    sec_to_label[s] =
                        IF walking_threshold2 > 0 THEN "STAYING" ELSE "HOLD"
        /\ script = "plot" => DOMAIN sec_to_label = DOMAIN sec_to_motion

\* a gap of the video script's table labelled STAYING under TH2 > 0
C5_Witness ==
    /\ cl_pc = "returned"
    /\ script = "create_video"
    /\ ValidThresholds /\ walking_threshold2 > 0
    /\ \E s \in (0..MaxKey(sec_to_motion)) \ DOMAIN sec_to_motion :
          sec_to_label[s] = "STAYING"

----------------------------------------------------------------------------
(* evaluate.py                                                             *)

(* Quotients.  A metric is a fraction [n, d] in lowest terms, d > 0; the    *)
(* record with d = 0 stands for the outcome of a division by zero.         *)

RECURSIVE GCD(_, _)
GCD(a, b) == IF b = 0 THEN a ELSE GCD(b, a % b)

DivByZero == [n |-> 0, d |-> 0]

IsDivByZero(x) == x.d = 0

Rat(n, d) == LET g == GCD(n, d) IN [n |-> n \div g, d |-> d \div g]

RZero == [n |-> 0, d |-> 1]

RInt(k) == [n |-> k, d |-> 1]

\* x / y
RDiv(x, y) ==
    IF IsDivByZero(x) \/ IsDivByZero(y) \/ y.n = 0 THEN DivByZero
    ELSE Rat(x.n * y.d, x.d * y.n)

RAdd(x, y) ==
    IF IsDivByZero(x) \/ IsDivByZero(y) THEN DivByZero
    ELSE Rat(x.n * y.d + y.n * x.d, x.d * y.d)

RMul(x, y) ==
    IF IsDivByZero(x) \/ IsDivByZero(y) THEN DivByZero
    ELSE Rat(x.n * y.n, x.d * y.d)

\* x > 0
RPos(x) == ~IsDivByZero(x) /\ x.n > 0

\* read_annotation_data lines 52-58: int(value.strip()) of every field,
\* the fields that raise are skipped
RECURSIVE ParseAnnotation(_)
ParseAnnotation(values) ==
    IF values = <<>> THEN <<>>
    ELSE (IF values[1].ok THEN <<values[1].v>> ELSE <<>>)
         \o ParseAnnotation(Tail(values))

\* a rule that calls motion what lies at or below the threshold
classify_motion_below(table, threshold) ==
    [sec \in DOMAIN table |-> IF table[sec] <= threshold THEN 1 ELSE 0]

\* evaluate.classify_motion: 1 (motion) from the threshold on, else 0
classify_motion(table, threshold) ==
    [sec \in DOMAIN table |-> IF table[sec] >= threshold THEN 1 ELSE 0]

\* the prediction for a second without classification, taken as motion
MissingAsMotion(classification, sec) == Get(classification, sec, 1)

\* align_data lines 142-148: the prediction for second sec
AlignedPrediction(classification, sec) == Get(classification, sec, 0)

\* align_data: the loop over range(len(annotation_data))
RECURSIVE AlignFrom(_, _, _)
AlignFrom(annotation, classification, sec) ==
    IF sec >= Len(annotation) THEN [y_true |-> <<>>, y_pred |-> <<>>]
    ELSE LET rest == AlignFrom(annotation, classification, sec + 1)
         IN  [y_true |-> <<annotation[sec + 1]>> \o rest.y_true,
              y_pred |-> <<AlignedPrediction(classification, sec)>> \o rest.y_pred]

align_data(annotation, classification) == AlignFrom(annotation, classification, 0)

\* calculate_confusion_matrix: one pair of zip(y_true, y_pred)
CountPair(c, true_val, pred_val) ==
    IF true_val = 0 /\ pred_val = 0 THEN [c EXCEPT !.tn = @ + 1]
    ELSE IF true_val = 0 /\ pred_val = 1 THEN [c EXCEPT !.fp = @ + 1]
    ELSE IF true_val = 1 /\ pred_val = 0 THEN [c EXCEPT !.fn = @ + 1]
    ELSE IF true_val = 1 /\ pred_val = 1 THEN [c EXCEPT !.tp = @ + 1]
    ELSE c

RECURSIVE CountFrom(_, _, _, _)
CountFrom(c, yt, yp, i) ==
    IF i > Len(yt) \/ i > Len(yp) THEN c
    ELSE CountFrom(CountPair(c, yt[i], yp[i]), yt, yp, i + 1)

calculate_confusion_matrix(yt, yp) ==
    CountFrom([tn |-> 0, fp |-> 0, fn |-> 0, tp |-> 0], yt, yp, 1)

\* a quotient without its guard
Unguarded(num, den) == RDiv(num, den)

\* "num / den if den > 0 else 0"
Guarded(num, den) == IF RPos(den) THEN RDiv(num, den) ELSE RZero

calculate_metrics(yt, yp) ==
    LET c   == calculate_confusion_matrix(yt, yp)
        tn  == RInt(c.tn)
        fp  == RInt(c.fp)
        fn  == RInt(c.fn)
        tp  == RInt(c.tp)
        accuracy == Guarded(RAdd(tp, tn), RAdd(RAdd(tp, tn), RAdd(fp, fn)))
        sp  == Guarded(tn, RAdd(tn, fn))
        sr  == Guarded(tn, RAdd(tn, fp))
        sf  == Guarded(RMul(RInt(2), RMul(sp, sr)), RAdd(sp, sr))
        ss  == RAdd(tn, fp)
        mp  == Guarded(tp, RAdd(tp, fp))
        mr  == Guarded(tp, RAdd(tp, fn))
        mf  == Guarded(RMul(RInt(2), RMul(mp, mr)), RAdd(mp, mr))
        ms  == RAdd(tp, fn)
        tot == RAdd(ss, ms)
    IN  [accuracy           |-> accuracy,
         static_precision   |-> sp,
         static_recall      |-> sr,
         static_f1          |-> sf,
         static_support     |-> c.tn + c.fp,
         motion_precision   |-> mp,
         motion_recall      |-> mr,
         motion_f1          |-> mf,
         motion_support     |-> c.tp + c.fn,
         macro_precision    |-> RDiv(RAdd(sp, mp), RInt(2)),
         macro_recall       |-> RDiv(RAdd(sr, mr), RInt(2)),
         macro_f1           |-> RDiv(RAdd(sf, mf), RInt(2)),
         weighted_precision |-> Guarded(RAdd(RMul(sp, ss), RMul(mp, ms)), tot),
         weighted_recall    |-> Guarded(RAdd(RMul(sr, ss), RMul(mr, ms)), tot),
         weighted_f1        |-> Guarded(RAdd(RMul(sf, ss), RMul(mf, ms)), tot),
         total_support      |-> c.tn + c.fp + c.tp + c.fn]

MaxAnn == 3

MaxEvalSec == 2

\* the fields of an annotation file: 0, 1, another integer, not an integer
AnnFields == {Num(0), Num(1), Num(2), Bad}

AnnotationFiles ==
    { [exists |-> TRUE, values |-> v] : v \in SeqsUpTo(AnnFields, MaxAnn) }
    \cup { [exists |-> FALSE, values |-> <<>>] }

EvalMotionVals == {5, 10, 20}

EvalThresholds == {10, 20}

EvalTables == UNION { [S -> EvalMotionVals] : S \in SUBSET (0..MaxEvalSec) }

NoMetrics == calculate_metrics(<<>>, <<>>)

EvalInit ==
    /\ script = "evaluate"
    /\ sec_to_motion \in EvalTables
    /\ walking_threshold1 \in EvalThresholds
    /\ walking_threshold2 \in EvalThresholds
    /\ annotation_file \in AnnotationFiles
    /\ annotation_data = <<>>
    /\ th_idx = 0
    /\ sec_to_classification = EmptyTable
    /\ y_true = <<>>
    /\ y_pred = <<>>
    /\ cm = [tn |-> 0, fp |-> 0, fn |-> 0, tp |-> 0]
    /\ metrics = NoMetrics
    /\ ev_pc = "read_annotation"
    /\ AggIdle /\ StitchIdle /\ ClassifyIdle /\ VideoIdle /\ PlotIdle

notEval == <<aggVars, shVars, stVars, thVars, clVars, vdVars, plVars, annotation_file>>

\* read_annotation_data: a missing file and empty content exit
EvReadAnnotation ==
    /\ ev_pc = "read_annotation"
    /\ IF ~annotation_file.exists \/ annotation_file.values = <<>>
       THEN ev_pc' = "exit1" /\ annotation_data' = annotation_data
       ELSE /\ annotation_data' = ParseAnnotation(annotation_file.values)
            /\ ev_pc' = "check_motion"
    /\ UNCHANGED <<th_idx, sec_to_classification, y_true, y_pred, cm, metrics>>
    /\ UNCHANGED notEval

\* main lines 374-379: an empty motion table exits
EvCheckMotion ==
    /\ ev_pc = "check_motion"
    /\ ev_pc' = IF sec_to_motion = EmptyTable THEN "exit1" ELSE "classify"
    /\ UNCHANGED <<annotation_data, th_idx, sec_to_classification, y_true,
                   y_pred, cm, metrics>>
    /\ UNCHANGED notEval

\* the threshold of the pass of the loop of main
Threshold == IF th_idx = 0 THEN walking_threshold1 ELSE walking_threshold2

\* main line 391
EvClassify ==
    /\ ev_pc = "classify"
    /\ sec_to_classification' = classify_motion(sec_to_motion, Threshold)
    /\ ev_pc' = "align"
    /\ UNCHANGED <<annotation_data, th_idx, y_true, y_pred, cm, metrics>>
    /\ UNCHANGED notEval

\* main line 394
EvAlign ==
    /\ ev_pc = "align"
    /\ LET a == align_data(annotation_data, sec_to_classification)
       IN  y_true' = a.y_true /\ y_pred' = a.y_pred
    /\ ev_pc' = "report"
    /\ UNCHANGED <<annotation_data, th_idx, sec_to_classification, cm, metrics>>
    /\ UNCHANGED notEval

\* main lines 397-402: the matrix and the report of the threshold
EvReport ==
    /\ ev_pc = "report"
    /\ cm' = calculate_confusion_matrix(y_true, y_pred)
    /\ metrics' = calculate_metrics(y_true, y_pred)
    /\ th_idx' = th_idx + 1
    /\ ev_pc' = IF th_idx = 0 THEN "classify" ELSE "done"
    /\ UNCHANGED <<annotation_data, sec_to_classification, y_true, y_pred>>
    /\ UNCHANGED notEval

EvalNext ==
    \/ EvReadAnnotation
    \/ EvCheckMotion
    \/ EvClassify
    \/ EvAlign
    \/ EvReport

SpecEval == EvalInit /\ [][EvalNext]_vars

\* a matrix and a report exist for the sequences in y_true and y_pred
Reported == th_idx >= 1 /\ ev_pc \in {"classify", "done"}

\* y_true and y_pred are the aligned sequences of the current classification
Aligned == ev_pc = "report"

\* C6: whenever a confusion matrix has been computed, TN + FP + FN + TP is
\* the number of aligned pairs, for every annotation sequence
\* read_annotation_data returns and every prediction table.
C6_MatrixTotal ==
    Reported => cm.tn + cm.fp + cm.fn + cm.tp = Len(y_true)

\* C7: align_data returns exactly one pair per annotated second 0..N-1, in
\* order; the truth is the annotation, the prediction is the classification
\* of the second or 0 when the second has none; the seconds from N on of the
\* classification appear in neither sequence nor in the matrix.
C7_AlignExactlyN ==
    (Aligned \/ Reported) =>
        LET N == Len(annotation_data)
        IN  /\ Len(y_true) = N
            /\ Len(y_pred) = N
            /\ \A sec \in 0..(N - 1) :
                  /\ y_true[sec + 1] = annotation_data[sec + 1]
                  /\ y_pred[sec + 1] =
                        IF sec \in DOMAIN sec_to_classification
                        THEN sec_to_classification[sec] ELSE 0
            /\ Reported => cm.tn + cm.fp + cm.fn + cm.tp <= N

\* an annotation of two seconds aligned with a classification that lacks
\* second 0 and has second 2
C7_Witness ==
    /\ Aligned
    /\ Len(annotation_data) = 2
    /\ DOMAIN sec_to_classification = {1, 2}
    /\ sec_to_classification[1] = 1
    /\ sec_to_classification[2] = 1
    /\ y_true = annotation_data
    /\ y_pred = <<0, 1>>

\* the metrics as the quotients of the matrix, 0 where the denominator is 0
QuotientOrZero(num, den) == IF den > 0 THEN Rat(num, den) ELSE RZero

\* C8: calculate_metrics raises no division by zero; a precision, recall,
\* F1, accuracy or weighted average whose denominator is zero is 0, and every
\* other metric is the quotient it is defined as.
C8_ZeroGuarded ==
    Reported =>
        LET sp == QuotientOrZero(cm.tn, cm.tn + cm.fn)
            sr == QuotientOrZero(cm.tn, cm.tn + cm.fp)
            mp == QuotientOrZero(cm.tp, cm.tp + cm.fp)
            mr == QuotientOrZero(cm.tp, cm.tp + cm.fn)
            ss == RInt(cm.tn + cm.fp)
            ms == RInt(cm.tp + cm.fn)
            tot == cm.tn + cm.fp + cm.tp + cm.fn
            F1(p, r) == IF RPos(RAdd(p, r))
                        THEN RDiv(RMul(RInt(2), RMul(p, r)), RAdd(p, r))
                        ELSE RZero
            Weighted(s, m) == IF tot > 0
                              THEN RDiv(RAdd(RMul(s, ss), RMul(m, ms)), RInt(tot))
                              ELSE RZero
        IN  /\ \A k \in {"accuracy", "static_precision", "static_recall",
                         "static_f1", "motion_precision", "motion_recall",
                         "motion_f1", "macro_precision", "macro_recall",
                         "macro_f1", "weighted_precision", "weighted_recall",
                         "weighted_f1"} : ~IsDivByZero(metrics[k])
            /\ metrics.accuracy = QuotientOrZero(cm.tp + cm.tn, tot)
            /\ metrics.static_precision = sp
            /\ metrics.static_recall = sr
            /\ metrics.motion_precision = mp
            /\ metrics.motion_recall = mr
            /\ metrics.static_f1 = F1(sp, sr)
            /\ metrics.motion_f1 = F1(mp, mr)
            /\ metrics.weighted_precision = Weighted(sp, mp)
            /\ metrics.weighted_recall = Weighted(sr, mr)
            /\ metrics.weighted_f1 = Weighted(F1(sp, sr), F1(mp, mr))

\* a report over no pair at all, every denominator zero, and the loop of
\* main went on to the second threshold
C8_Witness ==
    /\ Reported
    /\ th_idx = 1
    /\ annotation_file.exists
    /\ annotation_file.values # <<>>
    /\ y_true = <<>>
    /\ cm = [tn |-> 0, fp |-> 0, fn |-> 0, tp |-> 0]
    /\ metrics.accuracy = RZero
    /\ metrics.static_precision = RZero
    /\ metrics.motion_f1 = RZero
    /\ metrics.weighted_f1 = RZero

\* the annotation file is missing, empty, or holds no field that is 0 or 1
NoValidLabel ==
    \/ ~annotation_file.exists
    \/ \A i \in 1..Len(annotation_file.values) :
          ~(annotation_file.values[i].ok /\ annotation_file.values[i].v \in {0, 1})

(* C12: with an annotation file that is missing, empty or without any      *)
(* valid 0/1 label the evaluation exits with status 1 out of               *)
(* read_annotation_data, before any matrix or report; with a file that     *)
(* holds a valid label next to invalid values the invalid values are       *)
(* skipped and the annotation alone does not end the run.                  *)
C12_FatalAnnotation ==
    /\ NoValidLabel => (ev_pc \in {"read_annotation", "exit1"} /\ th_idx = 0)
    /\ (~NoValidLabel /\ ev_pc # "read_annotation") =>
          /\ annotation_data = ParseAnnotation(annotation_file.values)
          /\ ev_pc = "exit1" => sec_to_motion = EmptyTable

----------------------------------------------------------------------------
(* create_walking_classification_video.py: main and                       *)
(* create_classification_video                                             *)

MaxFrames == 4

\* the tables read_motion_data hands to main
VideoTables == UNION { [S -> {5, 20}] : S \in SUBSET (0..1) }

\* float(sys.argv[4]): sign and magnitude
ParseFps(arg) ==
    [neg |-> arg.num < 0,
     abs |-> IF arg.num = 0 THEN FloatZero
             ELSE FloatOfDecimal(IF arg.num < 0 THEN 0 - arg.num ELSE arg.num,
                                 arg.den)]

\* create_classification_video line 124: int(frame_idx / fps), f # 0;
\* int() truncates towards zero
FrameSecond(idx, f) ==
    LET q == FloatToInt(IntDivFloat(idx, f.abs))
    IN  IF f.neg THEN 0 - q ELSE q

\* classify_motion as a whole
LabelTable(scr, table, th1, th2) ==
    [sec \in SecondsToLabel(scr, table) |->
        LabelOf(scr, ClassLabel(Get(table, sec, 0), th1, th2))]

VideoInit ==
    /\ script = "create_video"
    /\ sec_to_motion \in VideoTables
    /\ walking_threshold1 = 20
    /\ walking_threshold2 = 10
    /\ video_argv_fps \in FpsArgs
    /\ video_fps = [neg |-> FALSE, abs |-> FloatZero]
    /\ frame_count \in 0..MaxFrames
    /\ frame_idx = 0
    /\ frame_labels = <<>>
    /\ out_video = "none"
    /\ vd_pc = "parse_args"
    /\ AggIdle /\ StitchIdle /\ ClassifyIdle /\ EvalIdle /\ PlotIdle

notVideo == <<aggVars, script, sec_to_motion, stVars, thVars, todo, cl_pc, evVars,
              plVars, video_argv_fps, frame_count>>

\* main line 187: float() of a text that is no number raises ValueError,
\* which nothing catches; no test of the sign follows
VdParseArgs ==
    /\ vd_pc = "parse_args"
    /\ IF video_argv_fps.ok
       THEN video_fps' = ParseFps(video_argv_fps) /\ vd_pc' = "check_motion"
       ELSE video_fps' = video_fps /\ vd_pc' = "ValueError"
    /\ UNCHANGED <<frame_idx, frame_labels, out_video, sec_to_label>>
    /\ UNCHANGED notVideo

\* main lines 210-214
VdCheckMotion ==
    /\ vd_pc = "check_motion"
    /\ vd_pc' = IF sec_to_motion = EmptyTable THEN "exit1" ELSE "classify"
    /\ UNCHANGED <<video_fps, frame_idx, frame_labels, out_video, sec_to_label>>
    /\ UNCHANGED notVideo

\* main line 221
VdClassify ==
    /\ vd_pc = "classify"
    /\ sec_to_label' = LabelTable(script, sec_to_motion,
                                  walking_threshold1, walking_threshold2)
    /\ vd_pc' = "open_video"
    /\ UNCHANGED <<video_fps, frame_idx, frame_labels, out_video>>
    /\ UNCHANGED notVideo

\* create_classification_video lines 99-111: the capture may not open; the
\* writer creates the output file
VdOpenVideo ==
    /\ vd_pc = "open_video"
    /\ \E opened \in BOOLEAN :
          IF opened
          THEN out_video' = "created" /\ vd_pc' = "frames"
          ELSE out_video' = out_video /\ vd_pc' = "exit1"
    /\ UNCHANGED <<video_fps, frame_idx, frame_labels, sec_to_label>>
    /\ UNCHANGED notVideo

\* one pass of the loop over the frames, lines 118-136; the division by a
\* zero fps raises ZeroDivisionError
VdFrame ==
    /\ vd_pc = "frames"
    /\ frame_idx < frame_count
    /\ IF video_fps.abs = FloatZero
       THEN /\ vd_pc' = "ZeroDivisionError"
            /\ UNCHANGED <<frame_idx, frame_labels>>
       ELSE LET sec == FrameSecond(frame_idx, video_fps)
            IN  /\ frame_labels' =
                      Append(frame_labels,
                             [sec |-> sec,
                              label |-> Get(sec_to_label, sec, "STAYING")])
                /\ frame_idx' = frame_idx + 1
                /\ vd_pc' = vd_pc
    /\ UNCHANGED <<video_fps, out_video, sec_to_label>>
    /\ UNCHANGED notVideo

\* ret is false: release, then save_statistics
VdRelease ==
    /\ vd_pc = "frames"
    /\ frame_idx = frame_count
    /\ out_video' = "saved"
    /\ vd_pc' = "done"
    /\ UNCHANGED <<video_fps, frame_idx, frame_labels, sec_to_label>>
    /\ UNCHANGED notVideo

VideoNext ==
    \/ VdParseArgs
    \/ VdCheckMotion
    \/ VdClassify
    \/ VdOpenVideo
    \/ VdFrame
    \/ VdRelease

SpecVideo == VideoInit /\ [][VideoNext]_vars

\* a frame rate argument that is a number and not positive
NonPositive(arg) == arg.ok /\ arg.num <= 0

(* C13: given a frame rate <= 0, the aggregation run and the               *)
(* classification-video run end with exit status 1 straight from the       *)
(* parsing of the arguments: no position is read, nothing is aggregated,   *)
(* no table is labelled, no frame is labelled and no output is written.    *)
C13_NonPositiveFpsFatal ==
    /\ (agg_pc # "idle" /\ NonPositive(argv_fps)) =>
          /\ agg_pc \in {"parse_fps", "exit1"}
          /\ xz_displacements = <<>>
          /\ per_second_motions = <<>>
          /\ motion_file = "none"
    /\ (vd_pc # "idle" /\ NonPositive(video_argv_fps)) =>
          /\ vd_pc \in {"parse_args", "exit1"}
          /\ sec_to_label = EmptyTable
          /\ frame_labels = <<>>
          /\ out_video = "none"

\* aggregate_by_second: start_frame and end_frame of local second s
WindowStart(s, f) == FloatToInt(IntMulFloat(s, f))

WindowEnd(s, f) == FloatToInt(IntMulFloat(s + 1, f))

(* C17: for a positive frame rate, the second drawn on frame f of the      *)
(* video, int(f / fps), is the local second whose aggregation window       *)
(* [int(s*fps), int((s+1)*fps)) holds f.                                   *)
C17_FrameSecondInWindow ==
    (vd_pc # "idle" /\ ~video_fps.neg) =>
        \A i \in 1..Len(frame_labels) :
            /\ WindowStart(frame_labels[i].sec, video_fps.abs) <= i - 1
            /\ i - 1 < WindowEnd(frame_labels[i].sec, video_fps.abs)

----------------------------------------------------------------------------
(* cal_moving_amount_by_sec.py: the frame motions and the rows             *)

(* C15: calculate_frame_motion returns one value per pair of consecutive   *)
(* positions, len(positions) - 1 in all, each the non-negative Euclidean   *)
(* distance of the pair; a run with fewer than 2 valid positions exits     *)
(* with status 1 and writes no motion file.                                *)
C15_FrameMotion ==
    /\ agg_pc \in {"aggregate", "done"} =>
          /\ Len(frame_motions) = Len(xz_displacements) - 1
          /\ \A i \in 1..Len(frame_motions) :
                LET dx == xz_displacements[i + 1][1] - xz_displacements[i][1]
                    dz == xz_displacements[i + 1][2] - xz_displacements[i][2]
                IN  /\ frame_motions[i] >= 0
                    /\ frame_motions[i] * frame_motions[i] = dx * dx + dz * dz
    /\ (agg_pc # "idle" /\ Len(read_pose_data(pose_file).xz) < 2) =>
          /\ motion_file = "none"
          /\ frame_motions = <<>>
          /\ agg_pc \in {"parse_fps", "extract_start", "read_pose", "exit1"}

\* a finished run over steps of length 5 and rests
C15_Witness ==
    /\ agg_pc = "done"
    /\ Len(frame_motions) >= 3
    /\ \E i \in 1..Len(frame_motions) : frame_motions[i] = 5
    /\ \E i \in 1..Len(frame_motions) : frame_motions[i] = 0

\* ceil(n / (num/den)) in whole numbers
CeilOfQuotient(n, arg) == (n * arg.den + arg.num - 1) \div arg.num

----------------------------------------------------------------------------
(* evaluate.py calculate_metrics in binary64: the accuracy and the         *)
(* support-weighted recall as the doubles the function returns             *)

\* a / b for ints a >= 0, b > 0
IntDivInt(a, b) == RoundNearestEven(LFromNat(a), LFromNat(b), 0)

\* x + y
FloatAdd(x, y) ==
    IF x.m = <<>> THEN y
    ELSE IF y.m = <<>> THEN x
    ELSE LET e == Min(x.e, y.e)
         IN  RoundNearestEven(LAdd(LShlBits(x.m, x.e - e), LShlBits(y.m, y.e - e)),
                              <<1>>, e)

\* x / k for an int k > 0
FloatDivInt(x, k) == RoundNearestEven(x.m, LFromNat(k), x.e)

\* x and y as whole multiples of one power of 2
Aligned2(x, y) ==
    LET e == IF x.m = <<>> THEN y.e ELSE IF y.m = <<>> THEN x.e ELSE Min(x.e, y.e)
    IN  [x |-> IF x.m = <<>> THEN <<>> ELSE LShlBits(x.m, x.e - e),
         y |-> IF y.m = <<>> THEN <<>> ELSE LShlBits(y.m, y.e - e)]

\* x == y
FloatEq(x, y) == LET a == Aligned2(x, y) IN a.x = a.y

\* |x - y| <= x * 2^-k
FloatWithin(x, y, k) ==
    LET a == Aligned2(x, y)
        d == IF LGeq(a.x, a.y) THEN LSub(a.x, a.y) ELSE LSub(a.y, a.x)
    IN  LGeq(a.x, LShlBits(d, k))

\* "a / b if b > 0 else 0"
GuardedQuotient(a, b) == IF b > 0 THEN IntDivInt(a, b) ELSE FloatZero

\* the mean of the recalls weighted by the predicted counts
recall_weighted_by_predictions(c) ==
    LET sr  == GuardedQuotient(c.tn, c.tn + c.fp)
        mr  == GuardedQuotient(c.tp, c.tp + c.fn)
        tot == c.tn + c.fp + c.tp + c.fn
    IN  IF tot > 0
        THEN FloatDivInt(FloatAdd(IntMulFloat(c.tn + c.fn, sr),
                                  IntMulFloat(c.tp + c.fp, mr)), tot)
        ELSE FloatZero

\* calculate_metrics line 265
weighted_recall(c) ==
    LET sr  == GuardedQuotient(c.tn, c.tn + c.fp)
        mr  == GuardedQuotient(c.tp, c.tp + c.fn)
        ss  == c.tn + c.fp
        ms  == c.tp + c.fn
        tot == ss + ms
    IN  IF tot > 0
        THEN FloatDivInt(FloatAdd(IntMulFloat(ss, sr), IntMulFloat(ms, mr)), tot)
        ELSE FloatZero

calculate_metrics_binary64(yt, yp) ==
    LET c == calculate_confusion_matrix(yt, yp)
    IN  [accuracy        |-> GuardedQuotient(c.tp + c.tn, c.tp + c.tn + c.fp + c.fn),
         weighted_recall |-> weighted_recall(c),
         static_support  |-> c.tn + c.fp,
         motion_support  |-> c.tp + c.fn,
         total_support   |-> c.tn + c.fp + c.tp + c.fn]

MaxStatic == 1

MaxFn == 7

MaxTp == 15

\* n times the value v
Repeat(v, n) == [i \in 1..n |-> v]

\* aligned sequences that give the matrix [tn, fp, fn, tp]
TruthOf(tn, fp, fn, tp) == Repeat(0, tn + fp) \o Repeat(1, fn + tp)

PredictionOf(tn, fp, fn, tp) ==
    Repeat(0, tn) \o Repeat(1, fp) \o Repeat(0, fn) \o Repeat(1, tp)

MetricsInit ==
    /\ script = "evaluate"
    /\ sec_to_motion = EmptyTable
    /\ walking_threshold1 = 0
    /\ walking_threshold2 = 0
    /\ annotation_file = [exists |-> FALSE, values |-> <<>>]
    /\ annotation_data = <<>>
    /\ th_idx = 0
    /\ sec_to_classification = EmptyTable
    /\ \E tn \in 0..MaxStatic, fp \in 0..MaxStatic, fn \in 0..MaxFn, tp \in 0..MaxTp :
          /\ y_true = TruthOf(tn, fp, fn, tp)
          /\ y_pred = PredictionOf(tn, fp, fn, tp)
    /\ cm = [tn |-> 0, fp |-> 0, fn |-> 0, tp |-> 0]
    /\ metrics = EmptyTable
    /\ ev_pc = "calculate_metrics"
    /\ AggIdle /\ StitchIdle /\ ClassifyIdle /\ VideoIdle /\ PlotIdle

\* save_evaluation_report lines 310-313
MtCalculate ==
    /\ ev_pc = "calculate_metrics"
    /\ cm' = calculate_confusion_matrix(y_true, y_pred)
    /\ metrics' = calculate_metrics_binary64(y_true, y_pred)
    /\ ev_pc' = "calculated"
    /\ UNCHANGED <<annotation_data, th_idx, sec_to_classification, y_true, y_pred>>
    /\ UNCHANGED notEval

MetricsNext == MtCalculate

SpecMetrics == MetricsInit /\ [][MetricsNext]_vars

(* C18: the weighted recall calculate_metrics returns is the accuracy it   *)
(* returns, 0 for both when no pair is counted, and the supports of the    *)
(* two classes sum to the number of counted pairs.                         *)
C18_WeightedRecallIsAccuracy ==
    ev_pc = "calculated" =>
        /\ FloatEq(metrics.weighted_recall, metrics.accuracy)
        /\ cm.tn + cm.fp + cm.fn + cm.tp = 0 => metrics.accuracy = FloatZero
        /\ metrics.static_support + metrics.motion_support
              = cm.tn + cm.fp + cm.fn + cm.tp

(* C18 as it holds: the weighted recall and the accuracy returned are the  *)
(* same number up to the rounding of the doubles, within 2^-51 of the      *)
(* accuracy; both are 0 when no pair is counted and the supports sum to    *)
(* the number of counted pairs.                                            *)
C18_WeightedRecallNearAccuracy ==
    ev_pc = "calculated" =>
        /\ FloatWithin(metrics.accuracy, metrics.weighted_recall, 51)
        /\ cm.tn + cm.fp + cm.fn + cm.tp = 0 =>
              (metrics.accuracy = FloatZero /\ metrics.weighted_recall = FloatZero)
        /\ metrics.static_support + metrics.motion_support
              = cm.tn + cm.fp + cm.fn + cm.tp

\* 23 pairs, TN 0, FP 1, FN 7, TP 15: the two doubles are neighbours
C18_Witness ==
    /\ ev_pc = "calculated"
    /\ cm = [tn |-> 0, fp |-> 1, fn |-> 7, tp |-> 15]
    /\ ~FloatEq(metrics.weighted_recall, metrics.accuracy)
    /\ FloatWithin(metrics.accuracy, metrics.weighted_recall, 51)
    /\ metrics.total_support = 23

----------------------------------------------------------------------------
(* evaluate.py main: the two passes of the loop over the thresholds        *)

(* C19: in a run with TH1 > TH2, when the second pass classifies, every    *)
(* second that the first pass called motion is called motion again; and    *)
(* when the second pass reports, TP and FP are at least, TN and FN at      *)
(* most those of the first matrix, and the totals are equal.               *)
C19_LowerThresholdMoreMotion ==
    [][(th_idx = 1 /\ walking_threshold1 > walking_threshold2) =>
          /\ (ev_pc = "classify" /\ ev_pc' = "align") =>
                /\ DOMAIN sec_to_classification' = DOMAIN sec_to_classification
                /\ \A sec \in DOMAIN sec_to_classification :
                      sec_to_classification[sec] = 1 =>
                          sec_to_classification'[sec] = 1
          /\ (ev_pc = "report" /\ ev_pc' = "done") =>
                /\ cm'.tp >= cm.tp
                /\ cm'.fp >= cm.fp
                /\ cm'.tn <= cm.tn
                /\ cm'.fn <= cm.fn
                /\ cm'.tn + cm'.fp + cm'.fn + cm'.tp
                      = cm.tn + cm.fp + cm.fn + cm.tp]_vars

\* TH1 = 2.0 > TH2 = 1.0, both passes done: a second with motion 1.0,
\* annotated 1, is motion for TH2 only; one with 2.0 is motion for both
C19_Witness ==
    /\ ev_pc = "done"
    /\ walking_threshold1 = 20
    /\ walking_threshold2 = 10
    /\ \E sec \in DOMAIN sec_to_motion :
          /\ sec_to_motion[sec] = 10
          /\ sec < Len(annotation_data)
          /\ annotation_data[sec + 1] = 1
          /\ y_pred[sec + 1] = 1
    /\ \E sec \in DOMAIN sec_to_motion : sec_to_motion[sec] = 20
    /\ cm.tp >= 1

----------------------------------------------------------------------------
(* The annotation readers of evaluate.py and of plot_move_amount_per_min.py *)
(* on one annotation file                                                   *)

\* plot read_annotation_data lines 86-92: enumerate(values), the fields that
\* int() rejects leave their second without a label
PlotAnnotation(values) ==
    [sec \in {i - 1 : i \in {j \in 1..Len(values) : values[j].ok}} |->
        values[sec + 1].v]

AnnotationInit ==
    /\ script = "evaluate"
    /\ sec_to_motion = EmptyTable
    /\ walking_threshold1 = 0
    /\ walking_threshold2 = 0
    /\ annotation_file \in AnnotationFiles
    /\ annotation_data = <<>>
    /\ th_idx = 0
    /\ sec_to_classification = EmptyTable
    /\ y_true = <<>>
    /\ y_pred = <<>>
    /\ cm = [tn |-> 0, fp |-> 0, fn |-> 0, tp |-> 0]
    /\ metrics = NoMetrics
    /\ ev_pc = "read_annotation"
    /\ sec_to_annotation = EmptyTable
    /\ pl_pc = "read_annotation"
    /\ AggIdle /\ StitchIdle /\ ClassifyIdle /\ VideoIdle

\* plot read_annotation_data: a missing file and empty content give {}
PlReadAnnotation ==
    /\ pl_pc = "read_annotation"
    /\ sec_to_annotation' =
          IF ~annotation_file.exists \/ annotation_file.values = <<>>
          THEN EmptyTable
          ELSE PlotAnnotation(annotation_file.values)
    /\ pl_pc' = "returned"
    /\ UNCHANGED <<aggVars, shVars, stVars, thVars, clVars, evVars, vdVars>>

AnnotationNext == EvReadAnnotation \/ PlReadAnnotation

SpecAnnotation == AnnotationInit /\ [][AnnotationNext]_vars

(* C20: once both readers have read the file, every field that is an       *)
(* integer is the label of its own second for the evaluator and for the    *)
(* plot, and the evaluator has no label the plot does not have for the     *)
(* same second.                                                            *)
C20_ReadersAgree ==
    (ev_pc = "check_motion" /\ pl_pc = "returned") =>
        /\ \A sec \in 0..(Len(annotation_file.values) - 1) :
              annotation_file.values[sec + 1].ok =>
                  /\ sec \in DOMAIN sec_to_annotation
                  /\ sec_to_annotation[sec] = annotation_file.values[sec + 1].v
                  /\ sec < Len(annotation_data)
                  /\ annotation_data[sec + 1] = annotation_file.values[sec + 1].v
        /\ \A sec \in 0..(Len(annotation_data) - 1) :
              /\ sec \in DOMAIN sec_to_annotation
              /\ sec_to_annotation[sec] = annotation_data[sec + 1]

====
